---- MODULE Spec2Model ----
(***************************************************************************)
(* Model of the users API Lambda (aws-users-api/src/lambda/handler.ts):    *)
(* the router `handler`, the nine operations it dispatches to, and the     *)
(* DynamoDB table they read and write.                                     *)
(*                                                                         *)
(* Strings that the code takes apart (paths, ids, names, timestamps) are   *)
(* sequences of one-character strings; strings that are only compared      *)
(* (methods, messages) are TLA+ strings.                                   *)
(***************************************************************************)
EXTENDS Integers, Sequences, FiniteSets, TLC

VARIABLES
    store,       \* the DynamoDB table: key (the id) -> item
    before,      \* the table as the current invocation found it
    clock,       \* the wall clock, in ticks
    uuidNext,    \* number of the next id uuidv4() hands out
    pc,          \* "idle", "pending" (an invocation is in the handler), "done"
    event,       \* the API Gateway event of the current invocation
    settled,     \* how the promise returned by handler settled
    dispatched,  \* the operation the router called, with its userId argument
    calls,       \* the commands this invocation sent to the table, in order
    fault,       \* the exception raised inside the operation, "none" if none
    returned,    \* id -> user object answered by createUser, until that id is written again
    deleted,     \* ids a deleteUser removed, until that id is written again
    running,     \* invocations that run at the same time, each in its own execution context
    panel        \* the state of the UserSearch component in a browser

vars ==
    <<store, before, clock, uuidNext, pc, event, settled, dispatched, calls, fault,
      returned, deleted, running, panel>>

----------------------------------------------------------------------------
(* Bounds of the model *)

\* ids uuidv4() may hand out before requests that create users stop arriving
MaxUuid == 1
\* last tick of the wall clock
MaxClock == 1
\* largest count of the numeric range sent to /users/bulk
MaxCount == 102
\* most items of any kind in the tables the scanning operations are run on
MaxRecords == 3
\* most batches of a bulk create that runs beside other invocations
MaxBatches == 3

----------------------------------------------------------------------------
(* Strings *)

Min(a, b) == IF a < b THEN a ELSE b

Max(a, b) == IF a > b THEN a ELSE b

Digits == <<"0", "1", "2", "3", "4", "5", "6", "7", "8", "9">>

\* decimal text of a natural number
RECURSIVE ToDecimal(_)
ToDecimal(n) ==
    IF n < 10 THEN <<Digits[n + 1]>>
    ELSE ToDecimal(n \div 10) \o <<Digits[(n % 10) + 1]>>

\* String.prototype.startsWith
StartsWith(s, prefix) ==
    /\ Len(s) >= Len(prefix)
    /\ SubSeq(s, 1, Len(prefix)) = prefix

\* index of the first occurrence of sep in s at or after position from, 0 if none
RECURSIVE IndexOf(_, _, _)
IndexOf(s, sep, from) ==
    IF from + Len(sep) - 1 > Len(s) THEN 0
    ELSE IF SubSeq(s, from, from + Len(sep) - 1) = sep THEN from
    ELSE IndexOf(s, sep, from + 1)

\* String.prototype.split with a non-empty string separator
RECURSIVE Split(_, _)
Split(s, sep) ==
    LET i == IndexOf(s, sep, 1)
    IN  IF i = 0 THEN <<s>>
        ELSE <<SubSeq(s, 1, i - 1)>> \o Split(SubSeq(s, i + Len(sep), Len(s)), sep)

\* String.prototype.includes
Includes(s, sub) == IndexOf(s, sub, 1) # 0

UpperCase ==
    <<"A", "B", "C", "D", "E", "F", "G", "H", "I", "J", "K", "L", "M",
      "N", "O", "P", "Q", "R", "S", "T", "U", "V", "W", "X", "Y", "Z">>

LowerCase ==
    <<"a", "b", "c", "d", "e", "f", "g", "h", "i", "j", "k", "l", "m",
      "n", "o", "p", "q", "r", "s", "t", "u", "v", "w", "x", "y", "z">>

\* String.prototype.toLowerCase, over the letters A to Z
ToLowerCase(s) ==
    [i \in 1..Len(s) |->
        IF \E k \in 1..Len(UpperCase) : UpperCase[k] = s[i]
        THEN LowerCase[CHOOSE k \in 1..Len(UpperCase) : UpperCase[k] = s[i]]
        ELSE s[i]]

\* code-unit order of the characters that occur in timestamps
CharCode(c) == CHOOSE k \in 1..Len(Digits) : Digits[k] = c

\* a < b, a = b or a > b in code-unit order: -1, 0 or 1
RECURSIVE CompareStrings(_, _)
CompareStrings(a, b) ==
    IF a = <<>> /\ b = <<>> THEN 0
    ELSE IF a = <<>> THEN -1
    ELSE IF b = <<>> THEN 1
    ELSE IF CharCode(Head(a)) < CharCode(Head(b)) THEN -1
    ELSE IF CharCode(Head(a)) > CharCode(Head(b)) THEN 1
    ELSE CompareStrings(Tail(a), Tail(b))

----------------------------------------------------------------------------
(* JavaScript and JSON values *)

Undefined == [t |-> "undefined"]

Null == [t |-> "null"]

NaN == [t |-> "NaN"]

Str(s) == [t |-> "str", v |-> s]

Num(n) == [t |-> "num", v |-> n]

\* values JavaScript treats as false in `x || y` and `!x`
Falsy(x) ==
    \/ x \in {Undefined, Null, NaN}
    \/ x = Str(<<>>)
    \/ x = Num(0)

\* x || y
OrElse(x, y) == IF Falsy(x) THEN y ELSE x

\* the property p of a parsed JSON object, undefined when it has none
Prop(obj, p) == IF p \in DOMAIN obj.v THEN obj.v[p] ELSE Undefined

\* an object literal / parsed JSON object with the properties of the record r
Obj(r) == [t |-> "obj", v |-> r]

\* text is numeric when every character is a digit (and it is not empty)
IsDigits(s) == s # <<>> /\ \A i \in 1..Len(s) : \E k \in 1..Len(Digits) : Digits[k] = s[i]

RECURSIVE ParseDecimal(_)
ParseDecimal(s) ==
    IF s = <<>> THEN 0
    ELSE 10 * ParseDecimal(SubSeq(s, 1, Len(s) - 1)) + (CharCode(s[Len(s)]) - 1)

\* ToNumber, the coercion Math.max and Math.min apply to their arguments
ToNumber(x) ==
    CASE x.t = "num" -> x
      [] x.t = "null" -> Num(0)
      [] x.t = "str" -> IF x.v = <<>> THEN Num(0)
                        ELSE IF IsDigits(x.v) THEN Num(ParseDecimal(x.v))
                        ELSE NaN
      [] OTHER -> NaN

\* Math.max(a, b): NaN when either argument coerces to NaN
MathMax(a, b) ==
    LET x == ToNumber(a)
        y == ToNumber(b)
    IN  IF x = NaN \/ y = NaN THEN NaN ELSE Num(Max(x.v, y.v))

\* Math.min(a, b): NaN when either argument coerces to NaN
MathMin(a, b) ==
    LET x == ToNumber(a)
        y == ToNumber(b)
    IN  IF x = NaN \/ y = NaN THEN NaN ELSE Num(Min(x.v, y.v))

(* event.body is absent, the empty text, text that is not JSON, or the text *)
(* of a JSON value.                                                         *)
NoBody == [kind |-> "absent"]

EmptyBody == [kind |-> "empty"]

MalformedBody == [kind |-> "malformed"]

JsonBody(value) == [kind |-> "json", value |-> value]

\* `event.body ? ... : ...`: an absent body and the empty text are falsy
BodyTruthy(body) == body.kind \in {"malformed", "json"}

\* a parser that reads text that is not JSON as the empty object
JSONparse_Lenient(body) ==
    IF body.kind = "json" THEN [threw |-> FALSE, value |-> body.value]
    ELSE [threw |-> FALSE, value |-> [t |-> "obj", v |-> [p \in {} |-> [t |-> "null"]]]]

\* JSON.parse(body): the value, or a SyntaxError
JSONparse(body) ==
    IF body.kind = "json" THEN [threw |-> FALSE, value |-> body.value]
    ELSE [threw |-> TRUE, error |-> "SyntaxError"]

\* JSON.stringify of an object: properties whose value is undefined are left out
JSONstringify(obj) ==
    LET keep == {p \in DOMAIN obj : obj[p] # Undefined}
    IN  [json |-> [p \in keep |-> obj[p]]]

\* JSON.stringify(value, null, 2): the same value, indented
JSONstringifyIndented(value) == [json |-> value, indent |-> 2]

----------------------------------------------------------------------------
(* Time *)

\* ticks in a day: a day has an earlier and a later half
TicksPerDay == 2

\* Date.prototype.toISOString: fixed-width text whose code-unit order is the order of time
toISOString(t) == <<Digits[((t \div 10) % 10) + 1], Digits[(t % 10) + 1]>>

\* new Date(now.getFullYear(), now.getMonth(), now.getDate()): midnight of now's day
\* (the Lambda runtime's local time zone is UTC)
StartOfDay(t) == t - (t % TicksPerDay)

----------------------------------------------------------------------------
(* The table. An item is a record of attributes; `id` is the partition key. *)

EmptyTable == [k \in {} |-> Null]

HasItem(st, key) == key \in DOMAIN st

\* the table with item written under key, replacing any item the key had
WriteItem(st, key, item) ==
    [k \in (DOMAIN st) \cup {key} |-> IF k = key THEN item ELSE st[k]]

\* the document client refuses an item or a value map that holds undefined
\* (marshalling without removeUndefinedValues throws)
Marshallable(r) == \A p \in DOMAIN r : r[p] # Undefined

\* a put that leaves the creation time out of the stored item
PutItem_WithoutCreatedAt(st, item) ==
    WriteItem(st, item.id.v, [a \in (DOMAIN item) \ {"createdAt"} |-> item[a]])

\* PutCommand: Item replaces whatever the key held
PutItem(st, item) == WriteItem(st, item.id.v, item)

\* GetCommand: result.Item, undefined when the key holds nothing
GetItem(st, key) == IF HasItem(st, key) THEN Obj(st[key]) ELSE Undefined

\* an update that sets only the attributes given a value other than null
UpdateItem_SkipsNull(st, key, name, email) ==
    LET old == IF HasItem(st, key) THEN st[key] ELSE [id |-> Str(key)]
        given == {a \in {"name", "email"} : (IF a = "name" THEN name ELSE email) # Null}
        new == [a \in (DOMAIN old) \cup given |->
                    IF a \in given THEN (IF a = "name" THEN name ELSE email) ELSE old[a]]
    IN  WriteItem(st, key, new)

\* UpdateCommand with "SET #name = :name, #email = :email": the two attributes are
\* set on the item of the key, every other attribute is kept; a key that holds
\* nothing gets a new item of the key and the two attributes
UpdateItem(st, key, name, email) ==
    LET old == IF HasItem(st, key) THEN st[key] ELSE [id |-> Str(key)]
        attrs == (DOMAIN old) \cup {"name", "email"}
        new == [a \in attrs |->
                    CASE a = "name" -> name
                      [] a = "email" -> email
                      [] OTHER -> old[a]]
    IN  WriteItem(st, key, new)

\* a delete that only marks: the item stays in the table
DeleteItem_Keeps(st, key) == st

\* DeleteCommand: the key holds nothing afterwards, whether or not it held an item
DeleteItem(st, key) == [k \in (DOMAIN st) \ {key} |-> st[k]]

\* a batch write whose items no read sees yet
BatchWrite_Deferred(st, batch) == st

\* BatchWriteCommand of PutRequests: every item of the batch is put under its id
BatchWrite(st, batch) ==
    LET keys == {batch[i].id.v : i \in 1..Len(batch)}
        put(k) == batch[CHOOSE i \in 1..Len(batch) : batch[i].id.v = k]
    IN  [k \in (DOMAIN st) \cup keys |-> IF k \in keys THEN put(k) ELSE st[k]]

\* a scan that stops after the first item
ScanResults_FirstItem(st) ==
    IF DOMAIN st = {} THEN {<<>>} ELSE {<<st[k]>> : k \in DOMAIN st}

\* ScanCommand: result.Items holds every item once, in an order the table chooses
\* (a table small enough for the scan to be answered in one page)
ScanResults(st) ==
    LET n == Cardinality(DOMAIN st)
    IN  {[i \in 1..n |-> st[order[i]]] :
            order \in {f \in [1..n -> DOMAIN st] : \A i, j \in 1..n : f[i] = f[j] => i = j}}

----------------------------------------------------------------------------
(* Paths and the router *)

PathUsers == <<"/", "u", "s", "e", "r", "s">>

PathUsersSlash == PathUsers \o <<"/">>

PathBulk == PathUsersSlash \o <<"b", "u", "l", "k">>

PathSearch == PathUsersSlash \o <<"s", "e", "a", "r", "c", "h">>

PathStats == PathUsersSlash \o <<"s", "t", "a", "t", "s">>

PathExport == PathUsersSlash \o <<"e", "x", "p", "o", "r", "t">>

\* uuidv4(): the n-th id handed out; ids never repeat
uuidv4(n) == ToDecimal(n)

\* a routing answer of the handler itself: no operation is called
Answer(status, message) ==
    [op |-> "none", statusCode |-> status, message |-> message]

\* the call of an operation
Call(op) == [op |-> op]

\* the call of a by-id operation
CallById(op, userId) == [op |-> op, userId |-> userId]

\* a router whose collection switch has no default: other methods fall through
route_NoDefault(method, path) ==
    IF path = PathUsers /\ method = "GET" THEN Call("getAllUsers")
    ELSE IF path = PathUsers /\ method = "POST" THEN Call("createUser")
    ELSE IF path = PathBulk /\ method = "POST" THEN Call("bulkCreateUsers")
    ELSE IF path = PathSearch /\ method = "GET" THEN Call("searchUsers")
    ELSE IF path = PathStats /\ method = "GET" THEN Call("getUserStats")
    ELSE IF path = PathExport /\ method = "GET" THEN Call("exportUsers")
    ELSE IF StartsWith(path, PathUsersSlash) THEN
        LET userId == Split(path, PathUsersSlash)[2]
        IN  IF userId = <<>> THEN Answer(400, "User ID required")
            ELSE CASE method = "GET" -> CallById("getUser", userId)
                   [] method = "PUT" -> CallById("updateUser", userId)
                   [] method = "DELETE" -> CallById("deleteUser", userId)
                   [] OTHER -> Answer(400, "Unsupported method")
    ELSE Answer(404, "Not Found")

\* a router that tries the by-id route before the reserved paths
route_ByIdFirst(method, path) ==
    IF path = PathUsers THEN
        CASE method = "GET" -> Call("getAllUsers")
          [] method = "POST" -> Call("createUser")
          [] OTHER -> Answer(400, "Unsupported method")
    ELSE IF StartsWith(path, PathUsersSlash) /\ Split(path, PathUsersSlash)[2] # <<>>
            /\ method \in {"GET", "PUT", "DELETE"} THEN
        LET userId == Split(path, PathUsersSlash)[2]
        IN  CASE method = "GET" -> CallById("getUser", userId)
              [] method = "PUT" -> CallById("updateUser", userId)
              [] method = "DELETE" -> CallById("deleteUser", userId)
    ELSE IF path = PathBulk /\ method = "POST" THEN Call("bulkCreateUsers")
    ELSE IF path = PathSearch /\ method = "GET" THEN Call("searchUsers")
    ELSE IF path = PathStats /\ method = "GET" THEN Call("getUserStats")
    ELSE IF path = PathExport /\ method = "GET" THEN Call("exportUsers")
    ELSE IF StartsWith(path, PathUsersSlash) THEN
        IF Split(path, PathUsersSlash)[2] = <<>> THEN Answer(400, "User ID required")
        ELSE Answer(400, "Unsupported method")
    ELSE Answer(404, "Not Found")

\* a router that does not test the id for emptiness
route_NoIdCheck(method, path) ==
    IF path = PathUsers THEN
        CASE method = "GET" -> Call("getAllUsers")
          [] method = "POST" -> Call("createUser")
          [] OTHER -> Answer(400, "Unsupported method")
    ELSE IF path = PathBulk /\ method = "POST" THEN Call("bulkCreateUsers")
    ELSE IF path = PathSearch /\ method = "GET" THEN Call("searchUsers")
    ELSE IF path = PathStats /\ method = "GET" THEN Call("getUserStats")
    ELSE IF path = PathExport /\ method = "GET" THEN Call("exportUsers")
    ELSE IF StartsWith(path, PathUsersSlash) THEN
        LET userId == Split(path, PathUsersSlash)[2]
        IN  CASE method = "GET" -> CallById("getUser", userId)
              [] method = "PUT" -> CallById("updateUser", userId)
              [] method = "DELETE" -> CallById("deleteUser", userId)
              [] OTHER -> Answer(400, "Unsupported method")
    ELSE Answer(404, "Not Found")

\* a router whose last answer is that of the method switches
route_NoNotFound(method, path) ==
    IF path = PathUsers THEN
        CASE method = "GET" -> Call("getAllUsers")
          [] method = "POST" -> Call("createUser")
          [] OTHER -> Answer(400, "Unsupported method")
    ELSE IF path = PathBulk /\ method = "POST" THEN Call("bulkCreateUsers")
    ELSE IF path = PathSearch /\ method = "GET" THEN Call("searchUsers")
    ELSE IF path = PathStats /\ method = "GET" THEN Call("getUserStats")
    ELSE IF path = PathExport /\ method = "GET" THEN Call("exportUsers")
    ELSE IF StartsWith(path, PathUsersSlash) THEN
        LET userId == Split(path, PathUsersSlash)[2]
        IN  IF userId = <<>> THEN Answer(400, "User ID required")
            ELSE CASE method = "GET" -> CallById("getUser", userId)
                   [] method = "PUT" -> CallById("updateUser", userId)
                   [] method = "DELETE" -> CallById("deleteUser", userId)
                   [] OTHER -> Answer(400, "Unsupported method")
    ELSE Answer(400, "Unsupported method")

\* a router that keeps the reserved paths from the by-id route, whatever the method
route_ReservedStrict(method, path) ==
    IF path = PathUsers THEN
        CASE method = "GET" -> Call("getAllUsers")
          [] method = "POST" -> Call("createUser")
          [] OTHER -> Answer(400, "Unsupported method")
    ELSE IF path = PathBulk THEN
        IF method = "POST" THEN Call("bulkCreateUsers") ELSE Answer(400, "Unsupported method")
    ELSE IF path = PathSearch THEN
        IF method = "GET" THEN Call("searchUsers") ELSE Answer(400, "Unsupported method")
    ELSE IF path = PathStats THEN
        IF method = "GET" THEN Call("getUserStats") ELSE Answer(400, "Unsupported method")
    ELSE IF path = PathExport THEN
        IF method = "GET" THEN Call("exportUsers") ELSE Answer(400, "Unsupported method")
    ELSE IF StartsWith(path, PathUsersSlash) THEN
        LET userId == Split(path, PathUsersSlash)[2]
        IN  IF userId = <<>> THEN Answer(400, "User ID required")
            ELSE CASE method = "GET" -> CallById("getUser", userId)
                   [] method = "PUT" -> CallById("updateUser", userId)
                   [] method = "DELETE" -> CallById("deleteUser", userId)
                   [] OTHER -> Answer(400, "Unsupported method")
    ELSE Answer(404, "Not Found")

\* the try block of handler: the first route that matches decides
route(method, path) ==
    IF path = PathUsers THEN
        CASE method = "GET" -> Call("getAllUsers")
          [] method = "POST" -> Call("createUser")
          [] OTHER -> Answer(400, "Unsupported method")
    ELSE IF path = PathBulk /\ method = "POST" THEN Call("bulkCreateUsers")
    ELSE IF path = PathSearch /\ method = "GET" THEN Call("searchUsers")
    ELSE IF path = PathStats /\ method = "GET" THEN Call("getUserStats")
    ELSE IF path = PathExport /\ method = "GET" THEN Call("exportUsers")
    ELSE IF StartsWith(path, PathUsersSlash) THEN
        \* path.split("/users/")[1]: the text between the first and the second "/users/"
        LET userId == Split(path, PathUsersSlash)[2]
        IN  IF userId = <<>> THEN Answer(400, "User ID required")
            ELSE CASE method = "GET" -> CallById("getUser", userId)
                   [] method = "PUT" -> CallById("updateUser", userId)
                   [] method = "DELETE" -> CallById("deleteUser", userId)
                   [] OTHER -> Answer(400, "Unsupported method")
    ELSE Answer(404, "Not Found")

----------------------------------------------------------------------------
(* Promises, responses and what an operation leaves behind *)

Fulfilled(value) == [state |-> "fulfilled", value |-> value]

Rejected(reason) == [state |-> "rejected", reason |-> reason]

Response(status, body) == [statusCode |-> status, body |-> body]

\* JSON.stringify({ message })
MessageBody(message) == [json |-> [message |-> message]]

\* JSON.stringify of an array of items
ItemsBody(items) == [json |-> items]

(* The run of an async operation: the settlement of its promise, the table *)
(* it leaves, the commands it sent, the exception it raised and the number *)
(* of ids it drew.                                                         *)
Completed(response, st, sent, drawn) ==
    [promise |-> Fulfilled(response), store |-> st, calls |-> sent,
     fault |-> "none", uuids |-> drawn]

Failed(error, st, sent, drawn) ==
    [promise |-> Rejected(error), store |-> st, calls |-> sent,
     fault |-> error, uuids |-> drawn]

(* What the environment decides for one invocation: the time, the number   *)
(* of the next id, the faker seed, the order of a scan, and which send to   *)
(* the table fails (0: none).                                               *)
Env(now, uuid, seed, scan, failAt) ==
    [now |-> now, uuid |-> uuid, seed |-> seed, scan |-> scan, failAt |-> failAt]

----------------------------------------------------------------------------
(* Program constants *)

\* items of one BatchWriteCommand
BatchSize == 25
\* count when the body gives none
DefaultCount == 10
\* least and greatest number of users of one bulk request
MinUsers == 1
MaxUsers == 100
\* users listed as recent by the statistics
RecentUsers == 5

----------------------------------------------------------------------------
(* The operations *)

\* getAllUsers: scan, answer every item
getAllUsers(ev, st, env) ==
    LET call == [cmd |-> "Scan"]
    IN  IF env.failAt = 1 THEN Failed("StoreError", st, <<call>>, 0)
        ELSE Completed(Response(200, ItemsBody(env.scan)), st, <<call>>, 0)

\* createUser: parse { name, email }, put a new item, answer it
createUser(ev, st, env) ==
    LET parsed == JSONparse(ev.body)
    IN  IF parsed.threw THEN Failed(parsed.error, st, <<>>, 0)
        \* destructuring null throws
        ELSE IF parsed.value = Null THEN Failed("TypeError", st, <<>>, 0)
        ELSE
            LET user == [id |-> Str(uuidv4(env.uuid)),
                         name |-> Prop(parsed.value, "name"),
                         email |-> Prop(parsed.value, "email"),
                         createdAt |-> Str(toISOString(env.now))]
                call == [cmd |-> "Put", Item |-> user]
            IN  IF ~Marshallable(user) THEN Failed("MarshallError", st, <<>>, 1)
                ELSE IF env.failAt = 1 THEN Failed("StoreError", st, <<call>>, 1)
                ELSE Completed(Response(201, JSONstringify(user)),
                               PutItem(st, user), <<call>>, 1)

(* faker: the names and email addresses a seeded generator yields *)
FakerNames == << <<"B", "o", "b">>, <<"A", "l">> >>

FakerEmails == << <<"b", "@", "x">>, <<"a", "l", "@", "x">> >>

Seeds == 1..Len(FakerNames)

fakerFullName(seed, i) == FakerNames[((seed + i) % Len(FakerNames)) + 1]

fakerEmail(seed, i) == FakerEmails[((seed + i) % Len(FakerEmails)) + 1]

\* Array.prototype.slice(from, to), both zero-based, to exclusive
Slice(a, from, to) == SubSeq(a, from + 1, Min(to, Len(a)))

\* batches cut one user too long: slice(i, i + 26), so neighbours share a user
RECURSIVE Batches_OneTooLong(_, _)
Batches_OneTooLong(users, i) ==
    IF i >= Len(users) THEN <<>>
    ELSE <<Slice(users, i, i + BatchSize + 1)>> \o Batches_OneTooLong(users, i + BatchSize)

\* for (let i = 0; i < users.length; i += 25) batches.push(users.slice(i, i + 25))
RECURSIVE Batches(_, _)
Batches(users, i) ==
    IF i >= Len(users) THEN <<>>
    ELSE <<Slice(users, i, i + BatchSize)>> \o Batches(users, i + BatchSize)

\* a loop that catches the failure of a batch and goes on with the next
RECURSIVE SendBatches_KeepsGoing(_, _, _, _)
SendBatches_KeepsGoing(st, batches, k, failAt) ==
    IF k > Len(batches) THEN [store |-> st, calls |-> <<>>, failed |-> FALSE]
    ELSE
        LET call == [cmd |-> "BatchWrite", Items |-> batches[k]]
            rest == SendBatches_KeepsGoing(
                        IF failAt = k THEN st ELSE BatchWrite(st, batches[k]),
                        batches, k + 1, failAt)
        IN  [store |-> rest.store, calls |-> <<call>> \o rest.calls,
             failed |-> rest.failed \/ failAt = k]

\* for (const batch of batches) await send(BatchWriteCommand): one batch after the
\* other, from batch k on; the send that fails ends the loop
RECURSIVE SendBatches(_, _, _, _)
SendBatches(st, batches, k, failAt) ==
    IF k > Len(batches) THEN [store |-> st, calls |-> <<>>, failed |-> FALSE]
    ELSE
        LET call == [cmd |-> "BatchWrite", Items |-> batches[k]]
        IN  IF failAt = k THEN [store |-> st, calls |-> <<call>>, failed |-> TRUE]
            ELSE
                LET rest == SendBatches(BatchWrite(st, batches[k]), batches, k + 1, failAt)
                IN  [store |-> rest.store, calls |-> <<call>> \o rest.calls,
                     failed |-> rest.failed]

\* a clamp without its floor: Math.min(count, 100)
numberOfUsers_NoFloor(given) ==
    LET count == IF given = Undefined THEN Num(DefaultCount) ELSE given
    IN  MathMin(count, Num(MaxUsers))

\* const { count = 10 } = ...; Math.min(Math.max(1, count), 100)
numberOfUsers(given) ==
    LET count == IF given = Undefined THEN Num(DefaultCount) ELSE given
    IN  MathMin(MathMax(Num(MinUsers), count), Num(MaxUsers))

\* for (let i = 0; i < numberOfUsers; i++) users.push(...): no pass when the bound is NaN
GenerateUsers(n, env) ==
    LET passes == IF n = NaN THEN 0 ELSE n.v
    IN  [i \in 1..passes |->
            [id |-> Str(uuidv4(env.uuid + i - 1)),
             name |-> Str(fakerFullName(env.seed, i - 1)),
             email |-> Str(fakerEmail(env.seed, i - 1)),
             createdAt |-> Str(toISOString(env.now))]]

\* bulkCreateUsers: parse { count }, generate the users, write them in batches
bulkCreateUsers(ev, st, env) ==
    LET parsed == IF BodyTruthy(ev.body) THEN JSONparse(ev.body)
                  ELSE [threw |-> FALSE, value |-> Obj([p \in {} |-> Null])]
    IN  IF parsed.threw THEN Failed(parsed.error, st, <<>>, 0)
        ELSE IF parsed.value = Null THEN Failed("TypeError", st, <<>>, 0)
        ELSE
            LET users == GenerateUsers(numberOfUsers(Prop(parsed.value, "count")), env)
                batches == Batches(users, 0)
                sent == SendBatches(st, batches, 1, env.failAt)
                body == [json |-> [message |-> <<"Created ", Len(users), " users">>,
                                   users |-> users]]
            IN  IF sent.failed THEN Failed("StoreError", sent.store, sent.calls, Len(users))
                ELSE Completed(Response(201, body), sent.store, sent.calls, Len(users))

\* a filter that looks at the name only
Matches_NameOnly(u, query) ==
    /\ "name" \in DOMAIN u
    /\ ~Falsy(u.name)
    /\ Includes(ToLowerCase(u.name.v), query)

\* the filter of searchUsers: name or email, lower-cased, contains the query
Matches(u, query) ==
    LET has(a) == /\ a \in DOMAIN u
                  /\ ~Falsy(u[a])
                  /\ Includes(ToLowerCase(u[a].v), query)
    IN  has("name") \/ has("email")

\* u.name.toLowerCase() and u.email.toLowerCase() are calls of a method only text
\* has: the filter throws at a name that is truthy and not text, and, when the
\* name did not match, at such an email
FilterThrows(u, query) ==
    LET truthy(a) == a \in DOMAIN u /\ ~Falsy(u[a])
        text(a) == u[a].t = "str"
    IN  \/ truthy("name") /\ ~text("name")
        \/ /\ ~(truthy("name") /\ Includes(ToLowerCase(u.name.v), query))
           /\ truthy("email") /\ ~text("email")

\* searchUsers: scan, keep the items that match q, answer them with their number
searchUsers(ev, st, env) ==
    LET query == ToLowerCase(OrElse(ev.q, Str(<<>>)).v)
        call == [cmd |-> "Scan"]
        users == IF query # <<>>
                 THEN SelectSeq(env.scan, LAMBDA u : Matches(u, query))
                 ELSE env.scan
    IN  IF env.failAt = 1 THEN Failed("StoreError", st, <<call>>, 0)
        ELSE IF query # <<>> /\ \E i \in 1..Len(env.scan) : FilterThrows(env.scan[i], query)
             THEN Failed("TypeError", st, <<call>>, 0)
        ELSE Completed(Response(200, [json |-> [results |-> users, count |-> Len(users)]]),
                       st, <<call>>, 0)

\* (b.createdAt || ""): the creation time text, empty for an item without one
CreatedAtOrEmpty(u) ==
    IF "createdAt" \in DOMAIN u /\ ~Falsy(u.createdAt) THEN u.createdAt.v ELSE <<>>

\* one item put into a list sorted newest first, behind the items that do not sort after it
RECURSIVE InsertNewestFirst(_, _)
InsertNewestFirst(sorted, u) ==
    IF sorted = <<>> THEN <<u>>
    ELSE IF CompareStrings(CreatedAtOrEmpty(u), CreatedAtOrEmpty(Head(sorted))) > 0
         THEN <<u>> \o sorted
         ELSE <<Head(sorted)>> \o InsertNewestFirst(Tail(sorted), u)

\* no sort: the items as the scan gave them
SortNewestFirst_Unsorted(users) == users

\* users.sort((a, b) => (b.createdAt || "").localeCompare(a.createdAt || "")): stable
RECURSIVE SortNewestFirst(_)
SortNewestFirst(users) ==
    IF users = <<>> THEN <<>>
    ELSE InsertNewestFirst(SortNewestFirst(SubSeq(users, 1, Len(users) - 1)),
                           users[Len(users)])

\* a comparison that leaves out the item created at midnight itself
CreatedSince_After(u, today) ==
    /\ "createdAt" \in DOMAIN u
    /\ u.createdAt.t = "str"
    /\ CompareStrings(u.createdAt.v, today) > 0

\* u.createdAt >= today: false for an item without a creation time
CreatedSince(u, today) ==
    /\ "createdAt" \in DOMAIN u
    /\ u.createdAt.t = "str"
    /\ CompareStrings(u.createdAt.v, today) >= 0

\* getUserStats: scan, count, count today's, list the newest
getUserStats(ev, st, env) ==
    LET call == [cmd |-> "Scan"]
        today == toISOString(StartOfDay(env.now))
        sortedUsers == SortNewestFirst(env.scan)
        stats == [totalUsers |-> Len(sortedUsers),
                  usersCreatedToday |->
                      Len(SelectSeq(sortedUsers, LAMBDA u : CreatedSince(u, today))),
                  recentUsers |-> Slice(sortedUsers, 0, RecentUsers),
                  lastUpdated |-> Str(toISOString(env.now))]
    IN  IF env.failAt = 1 THEN Failed("StoreError", st, <<call>>, 0)
        ELSE Completed(Response(200, [json |-> stats]), st, <<call>>, 0)

\* exportUsers: scan, answer every item as an indented download
exportUsers(ev, st, env) ==
    LET call == [cmd |-> "Scan"]
        headers == [h \in {"Content-Type", "Content-Disposition"} |->
                        IF h = "Content-Type" THEN "application/json"
                        ELSE "attachment; filename=\"users.json\""]
        response == [statusCode |-> 200, headers |-> headers,
                     body |-> JSONstringifyIndented(env.scan)]
    IN  IF env.failAt = 1 THEN Failed("StoreError", st, <<call>>, 0)
        ELSE Completed(response, st, <<call>>, 0)

\* a read that takes the item out of the table
getUser_Consumes(userId, st, env) ==
    LET call == [cmd |-> "Get", Key |-> userId]
        item == GetItem(st, userId)
    IN  IF env.failAt = 1 THEN Failed("StoreError", st, <<call>>, 0)
        ELSE IF item = Undefined
             THEN Completed(Response(404, MessageBody("User not found")), st, <<call>>, 0)
             ELSE Completed(Response(200, JSONstringify(item.v)),
                            DeleteItem(st, userId), <<call>>, 0)

\* getUser: get by key, 404 when the key holds nothing
getUser(userId, st, env) ==
    LET call == [cmd |-> "Get", Key |-> userId]
        item == GetItem(st, userId)
    IN  IF env.failAt = 1 THEN Failed("StoreError", st, <<call>>, 0)
        ELSE IF item = Undefined
             THEN Completed(Response(404, MessageBody("User not found")), st, <<call>>, 0)
             ELSE Completed(Response(200, JSONstringify(item.v)), st, <<call>>, 0)

\* an update that answers 404 when the key holds nothing, and writes nothing then
updateUser_NotFound(ev, userId, st, env) ==
    LET parsed == JSONparse(ev.body)
    IN  IF parsed.threw THEN Failed(parsed.error, st, <<>>, 0)
        ELSE IF parsed.value = Null THEN Failed("TypeError", st, <<>>, 0)
        ELSE
            LET name == OrElse(Prop(parsed.value, "name"), Null)
                email == OrElse(Prop(parsed.value, "email"), Null)
                call == [cmd |-> "Update", Key |-> userId, name |-> name, email |-> email]
                after == UpdateItem(st, userId, name, email)
            IN  IF env.failAt = 1 THEN Failed("StoreError", st, <<call>>, 0)
                ELSE IF ~HasItem(st, userId)
                     THEN Completed(Response(404, MessageBody("User not found")),
                                    st, <<call>>, 0)
                ELSE Completed(Response(200, JSONstringify(after[userId])),
                               after, <<call>>, 0)

\* updateUser: parse { name, email }, set both attributes, answer the item as it is then
updateUser(ev, userId, st, env) ==
    LET parsed == JSONparse(ev.body)
    IN  IF parsed.threw THEN Failed(parsed.error, st, <<>>, 0)
        ELSE IF parsed.value = Null THEN Failed("TypeError", st, <<>>, 0)
        ELSE
            LET name == OrElse(Prop(parsed.value, "name"), Null)
                email == OrElse(Prop(parsed.value, "email"), Null)
                call == [cmd |-> "Update", Key |-> userId, name |-> name, email |-> email]
                after == UpdateItem(st, userId, name, email)
            IN  IF env.failAt = 1 THEN Failed("StoreError", st, <<call>>, 0)
                ELSE Completed(Response(200, JSONstringify(after[userId])),
                               after, <<call>>, 0)

\* a delete that looks for the item first and answers 404 when the key holds nothing
deleteUser_ChecksExistence(userId, st, env) ==
    LET call == [cmd |-> "Delete", Key |-> userId]
    IN  IF env.failAt = 1 THEN Failed("StoreError", st, <<call>>, 0)
        ELSE IF ~HasItem(st, userId)
             THEN Completed(Response(404, MessageBody("User not found")), st, <<call>>, 0)
        ELSE Completed(Response(200, MessageBody(<<"user deleted : ", userId>>)),
                       DeleteItem(st, userId), <<call>>, 0)

\* deleteUser: delete by key, answer a message that names the id
deleteUser(userId, st, env) ==
    LET call == [cmd |-> "Delete", Key |-> userId]
    IN  IF env.failAt = 1 THEN Failed("StoreError", st, <<call>>, 0)
        ELSE Completed(Response(200, MessageBody(<<"user deleted : ", userId>>)),
                       DeleteItem(st, userId), <<call>>, 0)

----------------------------------------------------------------------------
(* The handler *)

\* the call of an async function: it never throws at the call, it returns a promise
AsyncCall(run) == [threw |-> FALSE, run |-> run]

\* the routing answers and the nine calls of the try block, for the route r
Dispatch(r, ev, st, env) ==
    CASE r.op = "none" ->
            [threw |-> FALSE,
             run |-> Completed(Response(r.statusCode, MessageBody(r.message)), st, <<>>, 0)]
      [] r.op = "getAllUsers" -> AsyncCall(getAllUsers(ev, st, env))
      [] r.op = "createUser" -> AsyncCall(createUser(ev, st, env))
      [] r.op = "bulkCreateUsers" -> AsyncCall(bulkCreateUsers(ev, st, env))
      [] r.op = "searchUsers" -> AsyncCall(searchUsers(ev, st, env))
      [] r.op = "getUserStats" -> AsyncCall(getUserStats(ev, st, env))
      [] r.op = "exportUsers" -> AsyncCall(exportUsers(ev, st, env))
      [] r.op = "getUser" -> AsyncCall(getUser(r.userId, st, env))
      [] r.op = "updateUser" -> AsyncCall(updateUser(ev, r.userId, st, env))
      [] r.op = "deleteUser" -> AsyncCall(deleteUser(r.userId, st, env))

\* catch (error) { return 500 }: it runs for an exception thrown inside the try block
Catch(tried, st) ==
    IF tried.threw
    THEN Completed(Response(500, MessageBody("Internal Server Error")), st, <<>>, 0)
    ELSE tried.run

(* handler: try { ... return operation(event) ... } catch { return 500 }.    *)
(* Each operation is returned as a promise that is not awaited, so the      *)
(* promise handler returns settles as the operation's promise settles.      *)
handler(ev, st, env) == Catch(Dispatch(route(ev.method, ev.path), ev, st, env), st)

----------------------------------------------------------------------------
(* Requests *)

Methods == {"GET", "POST", "PUT", "DELETE", "PATCH"}

Event(method, path, body, q) == [method |-> method, path |-> path, body |-> body, q |-> q]

NoEvent == [method |-> "none"]

PathOf(userId) == PathUsersSlash \o userId

UnknownId == <<"x">>

\* no route at all, and a path that only begins like the collection
OtherPaths == {<<"/">>, PathUsers \o <<"x">>}

\* by-id paths whose remainder holds "/users/" again
NestedPaths == {PathOf(<<"a">> \o PathUsersSlash \o <<"b">>), PathOf(PathUsersSlash \o <<"x">>)}

ReservedPaths == {PathBulk, PathSearch, PathStats, PathExport}

AllPaths ==
    {PathUsers, PathUsersSlash, PathOf(uuidv4(1)), PathOf(UnknownId)}
        \cup ReservedPaths \cup NestedPaths \cup OtherPaths

Ann == <<"A", "n", "n">>

AnnMail == <<"a", "n", "n", "@", "x">>

\* JSON objects with any of name and email; a name may be the empty text
UserObjects ==
    {Obj([p \in props |-> IF p = "name" THEN n ELSE Str(AnnMail)]) :
        props \in SUBSET {"name", "email"},
        n \in {Str(<<>>), Str(Ann)}}

UserBodies == {NoBody, MalformedBody, JsonBody(Null)} \cup {JsonBody(o) : o \in UserObjects}

CountObject(c) == Obj([p \in {"count"} |-> c])

Counts == (-1..MaxCount) \cup {1000}

BulkBodies ==
    {NoBody, EmptyBody, MalformedBody, JsonBody(Null), JsonBody(Obj([p \in {} |-> Null])),
     JsonBody(CountObject(Null)), JsonBody(CountObject(Str(<<"a">>))),
     JsonBody(CountObject(Str(<<"5", "0">>)))}
        \cup {JsonBody(CountObject(Num(c))) : c \in Counts}

Queries == {Undefined, Str(<<>>), Str(<<"a", "n">>), Str(<<"A", "N">>), Str(<<"z">>)}

\* every method on every path, and the bodies and queries of the routes that read them
AllEvents ==
    {Event(m, p, NoBody, Undefined) : m \in Methods, p \in AllPaths}
        \cup {Event("POST", PathUsers, b, Undefined) : b \in UserBodies}
        \cup {Event("PUT", PathOf(UnknownId), b, Undefined) : b \in UserBodies}
        \cup {Event("POST", PathBulk, b, Undefined) : b \in BulkBodies}
        \cup {Event("GET", PathSearch, NoBody, q) : q \in Queries}

\* the by-id paths of a client that knows the ids handed out so far and guesses one more
ClientPaths(issued) ==
    {PathOf(UnknownId)} \cup {PathOf(uuidv4(n)) : n \in 1..Min(issued, MaxUuid)}

\* the requests of such a client
Requests(issued) ==
    {Event(m, p, NoBody, Undefined) :
        m \in Methods \ {"POST", "PUT"}, p \in {PathUsers} \cup ClientPaths(issued)}
        \cup {Event("POST", PathUsers, b, Undefined) : b \in UserBodies}
        \cup {Event("PUT", p, b, Undefined) : b \in UserBodies, p \in ClientPaths(issued)}
        \cup {Event("POST", PathBulk, JsonBody(CountObject(Num(0))), Undefined)}
        \cup {Event("GET", PathSearch, NoBody, q) : q \in Queries}
        \cup {Event("GET", p, NoBody, Undefined) : p \in {PathStats, PathExport} \cup OtherPaths}

\* requests that make the handler draw ids
DrawsIds(ev) == route(ev.method, ev.path).op \in {"createUser", "bulkCreateUsers"}

----------------------------------------------------------------------------
(* State machine *)

NotSettled == [state |-> "pending"]

\* no browser has the component mounted
NoPanel == [mounted |-> FALSE]

NotDispatched == [op |-> "idle"]

Scans(op) ==
    IF op \in {"getAllUsers", "searchUsers", "getUserStats", "exportUsers"}
    THEN ScanResults(store)
    ELSE {<<>>}

SeedsOf(op) == IF op = "bulkCreateUsers" THEN Seeds ELSE {1}

\* the operations that read the clock see the time that has passed since the last reading
Times(op) ==
    IF op \in {"createUser", "bulkCreateUsers", "getUserStats"}
    THEN clock..Max(clock, MaxClock)
    ELSE {clock}

\* keys written by the commands that reached the table and did not fail
WrittenKeys(run) ==
    LET done == IF run.fault = "StoreError"
                THEN SubSeq(run.calls, 1, Len(run.calls) - 1)
                ELSE run.calls
        keysOf(c) == CASE c.cmd = "Put" -> {c.Item.id.v}
                       [] c.cmd \in {"Update", "Delete"} -> {c.Key}
                       [] c.cmd = "BatchWrite" -> {c.Items[i].id.v : i \in 1..Len(c.Items)}
                       [] OTHER -> {}
    IN  UNION {keysOf(done[i]) : i \in 1..Len(done)}

\* what the client holds of createUser's answers: forgotten for a key written since
Remember(op, run) ==
    LET kept == (DOMAIN returned) \ WrittenKeys(run)
        fresh == IF op = "createUser" /\ run.fault = "none"
                 THEN {run.promise.value.body.json.id.v}
                 ELSE {}
    IN  [k \in kept \cup fresh |->
            IF k \in fresh THEN run.promise.value.body.json ELSE returned[k]]

\* the ids deleteUser has removed and nothing has written since
Removed(op, run) ==
    LET fresh == IF op = "deleteUser" /\ run.fault = "none" THEN {run.calls[1].Key} ELSE {}
    IN  (deleted \ WrittenKeys(run)) \cup fresh

\* the request in the handler is one the router sends to op
Routed(op) ==
    /\ pc = "pending"
    /\ route(event.method, event.path).op = op

\* sends to the table that may fail in one invocation: none, or the n-th
FailPoints(op) ==
    CASE op = "none" -> {0}
      [] op = "bulkCreateUsers" -> 0..((MaxUsers + BatchSize - 1) \div BatchSize)
      [] OTHER -> 0..1

\* what the handler does not touch: other invocations and the browser
Elsewhere == <<running, panel>>

\* the invocation ends as run does
Settle(op, run, now) ==
    /\ store' = run.store
    /\ before' = store
    /\ settled' = run.promise
    /\ calls' = run.calls
    /\ fault' = run.fault
    /\ uuidNext' = uuidNext + run.uuids
    /\ returned' = Remember(op, run)
    /\ deleted' = Removed(op, run)
    /\ UNCHANGED Elsewhere
    /\ clock' = now

\* one invocation of handler, routed to op, run to the settlement of its promise
Invoke(op) ==
    /\ \E now \in Times(op), seed \in SeedsOf(op), scan \in Scans(op),
          failAt \in FailPoints(op) :
            Settle(op, handler(event, store, Env(now, uuidNext, seed, scan, failAt)), now)
    /\ dispatched' = route(event.method, event.path)
    /\ pc' = "done"
    /\ UNCHANGED event

GetAllUsers ==
    /\ Routed("getAllUsers")
    /\ Invoke("getAllUsers")

CreateUser ==
    /\ Routed("createUser")
    /\ Invoke("createUser")

BulkCreateUsers ==
    /\ Routed("bulkCreateUsers")
    /\ Invoke("bulkCreateUsers")

SearchUsers ==
    /\ Routed("searchUsers")
    /\ Invoke("searchUsers")

GetUserStats ==
    /\ Routed("getUserStats")
    /\ Invoke("getUserStats")

ExportUsers ==
    /\ Routed("exportUsers")
    /\ Invoke("exportUsers")

GetUser ==
    /\ Routed("getUser")
    /\ Invoke("getUser")

UpdateUser ==
    /\ Routed("updateUser")
    /\ Invoke("updateUser")

DeleteUser ==
    /\ Routed("deleteUser")
    /\ Invoke("deleteUser")

\* the router answers 400 or 404 itself
RoutingAnswer ==
    /\ Routed("none")
    /\ Invoke("none")

\* API Gateway hands the next request to the handler
Receive ==
    /\ pc = "idle"
    /\ \E ev \in Requests(uuidNext - 1) :
        /\ DrawsIds(ev) => uuidNext <= MaxUuid
        /\ event' = ev
    /\ pc' = "pending"
    /\ UNCHANGED <<store, before, clock, uuidNext, settled, dispatched, calls, fault,
                   returned, deleted, Elsewhere>>

\* the invocation ends: its answer has gone to the client
Return ==
    /\ pc = "done"
    /\ pc' = "idle"
    /\ event' = NoEvent
    /\ settled' = NotSettled
    /\ dispatched' = NotDispatched
    /\ calls' = <<>>
    /\ fault' = "none"
    /\ before' = store
    /\ UNCHANGED <<store, clock, uuidNext, returned, deleted, Elsewhere>>

Handle ==
    \/ GetAllUsers
    \/ CreateUser
    \/ BulkCreateUsers
    \/ SearchUsers
    \/ GetUserStats
    \/ ExportUsers
    \/ GetUser
    \/ UpdateUser
    \/ DeleteUser
    \/ RoutingAnswer

Fresh ==
    /\ store = EmptyTable
    /\ before = EmptyTable
    /\ clock = 0
    /\ uuidNext = 1
    /\ settled = NotSettled
    /\ dispatched = NotDispatched
    /\ calls = <<>>
    /\ fault = "none"
    /\ returned = [k \in {} |-> Null]
    /\ deleted = {}
    /\ running = <<>>
    /\ panel = NoPanel

\* the service from deployment on: requests arrive one after the other
Init ==
    /\ Fresh
    /\ pc = "idle"
    /\ event = NoEvent

Next == Receive \/ Handle \/ Return

Spec == Init /\ [][Next]_vars

\* one request, any of AllEvents, to the freshly deployed service
InitSingle ==
    /\ Fresh
    /\ pc = "pending"
    /\ event \in AllEvents

NextSingle == Handle

SpecSingle == InitSingle /\ [][NextSingle]_vars

----------------------------------------------------------------------------
(* The four operations that scan, over a table of any content *)

AnnLee == <<"A", "n", "n", " ", "L", "e", "e">>

\* the last tick of two days
LastTick == 2 * TicksPerDay - 1

\* an item createUser or bulkCreateUsers wrote at tick t
CreatedKind(t) ==
    [name |-> Str(AnnLee), email |-> Str(AnnMail), createdAt |-> Str(toISOString(t))]

(* What an item may hold besides its id: what createUser wrote at one of    *)
(* the ticks; what updateUser wrote under a key that held nothing, with a   *)
(* body without name and with or without email; and a name createUser took  *)
(* from a body whose name is a number.                                      *)
ItemKinds ==
    [t \in 1..(LastTick + 1) |-> CreatedKind(t - 1)]
        \o <<[name |-> Null, email |-> Null],
              [name |-> Null, email |-> Str(AnnMail)],
              [name |-> Num(5), email |-> Str(AnnMail), createdAt |-> Str(toISOString(0))]>>

\* kinds for the larger tables: two creation times a day apart, and an item without one
FewKinds == <<CreatedKind(1), CreatedKind(TicksPerDay), [name |-> Null, email |-> Null]>>

ItemOf(i, kind) ==
    [a \in {"id"} \cup DOMAIN kind |-> IF a = "id" THEN Str(uuidv4(i)) ELSE kind[a]]

\* the tables of n items, for every choice of their kinds
TablesOf(n, kinds) ==
    {[k \in {uuidv4(i) : i \in 1..n} |->
        ItemOf(CHOOSE i \in 1..n : uuidv4(i) = k,
               kinds[f[CHOOSE i \in 1..n : uuidv4(i) = k]])] :
        f \in {g \in [1..n -> 1..Len(kinds)] : \A i, j \in 1..n : i <= j => g[i] <= g[j]}}

\* tables of a few items of any kind, and tables one item larger than the recent list
ViewTables ==
    UNION {TablesOf(n, ItemKinds) : n \in 0..MaxRecords}
        \cup TablesOf(RecentUsers + 1, FewKinds)

\* the tick an item was created at, -1 for an item without a creation time
TickOf(item) ==
    IF "createdAt" \in DOMAIN item
    THEN CHOOSE t \in 0..LastTick : item.createdAt = Str(toISOString(t))
    ELSE -1

\* the tick the newest item of a table was created at, 0 for a table without one
Latest(st) ==
    IF \A k \in DOMAIN st : TickOf(st[k]) = -1 THEN 0
    ELSE CHOOSE t \in 0..LastTick :
            /\ \E k \in DOMAIN st : TickOf(st[k]) = t
            /\ \A k \in DOMAIN st : TickOf(st[k]) <= t

ViewQueries ==
    Queries \cup {Str(<<"a", "n", "n">>), Str(<<"A", "N", "N">>), Str(<<"l", "e", "e">>),
                  Str(<<"z", "z", "z">>)}

\* every scanning request; of the larger tables the statistics only
ViewEvents(st) ==
    IF Cardinality(DOMAIN st) > RecentUsers
    THEN {Event("GET", PathStats, NoBody, Undefined)}
    ELSE {Event("GET", p, NoBody, Undefined) : p \in {PathUsers, PathStats, PathExport}}
            \cup {Event("GET", PathSearch, NoBody, q) : q \in ViewQueries}

\* one scanning request to the service whose table holds any of ViewTables
InitViews ==
    /\ store \in ViewTables
    /\ before = store
    /\ clock \in Latest(store)..LastTick
    /\ uuidNext = Cardinality(DOMAIN store) + 1
    /\ settled = NotSettled
    /\ dispatched = NotDispatched
    /\ calls = <<>>
    /\ fault = "none"
    /\ returned = [k \in {} |-> Null]
    /\ deleted = {}
    /\ running = <<>>
    /\ panel = NoPanel
    /\ pc = "pending"
    /\ event \in ViewEvents(store)

NextViews ==
    \/ GetAllUsers
    \/ SearchUsers
    \/ GetUserStats
    \/ ExportUsers

SpecViews == InitViews /\ [][NextViews]_vars

----------------------------------------------------------------------------
(* Invocations that run at the same time. Each request is handled in its    *)
(* own execution context; the contexts share the table and nothing else. An *)
(* invocation goes on at its awaits: a step is what it does between two of   *)
(* them, or the table carrying out one command. The table accepts every      *)
(* command in these runs.                                                    *)

\* bulk requests of two batches and more, the last batch holding one user
BulkSizes == {BatchSize * (b - 1) + 1 : b \in 2..MaxBatches}

BulkEvent(n) == Event("POST", PathBulk, JsonBody(CountObject(Num(n))), Undefined)

ListEvent == Event("GET", PathUsers, NoBody, Undefined)

Bob == <<"B", "o", "b">>

BobMail == <<"b", "o", "b", "@", "x">>

\* updates of the item of the first id: two with a name and an email, one with neither
UpdateEvents ==
    {Event("PUT", PathOf(uuidv4(1)), JsonBody(o), Undefined) :
        o \in {Obj([name |-> Str(Ann), email |-> Str(AnnMail)]),
               Obj([name |-> Str(Bob), email |-> Str(BobMail)]),
               Obj([p \in {} |-> Null])}}

\* an invocation the router has sent to its operation and that has not gone further
Invocation(ev) == [event |-> ev, routed |-> route(ev.method, ev.path), at |-> "start"]

\* a bulk create with two scans, and two updates of one item with one scan
Workloads ==
    {<<Invocation(BulkEvent(n)), Invocation(ListEvent), Invocation(ListEvent)>> :
        n \in BulkSizes}
        \cup {<<Invocation(a), Invocation(b), Invocation(ListEvent)>> :
                a \in UpdateEvents, b \in UpdateEvents}

\* a loop that sends the next batch without waiting for the one before
AwaitsBatch_Never(p) == TRUE

\* `await dynamoDB.send(...)` in the loop: the loop goes on when the send has completed
AwaitsBatch(p) == p.issued = Cardinality(p.written)

\* two commands for one update: the name first, the email after it
UpdateCommands_TwoCalls(userId, name, email) ==
    <<[cmd |-> "Update", Key |-> userId, name |-> name],
      [cmd |-> "Update", Key |-> userId, email |-> email]>>

\* the commands updateUser sends: one UpdateCommand that sets name and email
UpdateCommands(userId, name, email) ==
    <<[cmd |-> "Update", Key |-> userId, name |-> name, email |-> email]>>

\* the table carries out an UpdateCommand: one item changes, in one step
ApplyUpdate(st, c) ==
    LET old == IF HasItem(st, c.Key) THEN st[c.Key] ELSE [id |-> Str(c.Key)]
        set == (DOMAIN c) \cap {"name", "email"}
        new == [a \in (DOMAIN old) \cup set |-> IF a \in set THEN c[a] ELSE old[a]]
    IN  WriteItem(st, c.Key, new)

\* the invocations of bulkCreateUsers that have written a batch and have one to write
BetweenBatches ==
    {j \in DOMAIN running :
        /\ running[j].routed.op = "bulkCreateUsers"
        /\ running[j].at = "loop"
        /\ running[j].written # {}
        /\ Cardinality(running[j].written) < Len(running[j].batches)}

\* the handler's own state stays as it is while the concurrent invocations run
Aside == <<before, clock, pc, event, settled, dispatched, calls, fault, returned, deleted, panel>>

\* bulkCreateUsers up to its loop: the count is read, the users and the batches are made
BulkStart(i) ==
    LET p == running[i]
        count == Prop(JSONparse(p.event.body).value, "count")
        users == GenerateUsers(numberOfUsers(count), Env(clock, uuidNext, 1, <<>>, 0))
    IN  /\ p.routed.op = "bulkCreateUsers"
        /\ p.at = "start"
        /\ running' = [running EXCEPT ![i] =
                [event |-> p.event, routed |-> p.routed, at |-> "loop", users |-> users,
                 batches |-> Batches(users, 0), issued |-> 0, written |-> {}, log |-> <<>>]]
        /\ uuidNext' = uuidNext + Len(users)
        /\ UNCHANGED <<store, Aside>>

\* the loop sends the next batch
BulkSend(i) ==
    LET p == running[i]
    IN  /\ p.routed.op = "bulkCreateUsers"
        /\ p.at = "loop"
        /\ p.issued < Len(p.batches)
        /\ AwaitsBatch(p)
        /\ running' = [running EXCEPT ![i].issued = p.issued + 1,
                                      ![i].log = Append(p.log, <<"send", p.issued + 1>>)]
        /\ UNCHANGED <<store, uuidNext, Aside>>

\* the table carries out a batch write that is in flight
BulkWritten(i) ==
    LET p == running[i]
    IN  /\ p.routed.op = "bulkCreateUsers"
        /\ p.at = "loop"
        /\ \E b \in (1..p.issued) \ p.written :
            /\ store' = BatchWrite(store, p.batches[b])
            /\ running' = [running EXCEPT ![i].written = p.written \cup {b},
                                          ![i].log = Append(p.log, <<"done", b>>)]
        /\ UNCHANGED <<uuidNext, Aside>>

\* the loop is over: bulkCreateUsers answers 201
BulkAnswer(i) ==
    LET p == running[i]
        body == [json |-> [message |-> <<"Created ", Len(p.users), " users">>,
                           users |-> p.users]]
    IN  /\ p.routed.op = "bulkCreateUsers"
        /\ p.at = "loop"
        /\ p.issued = Len(p.batches)
        /\ AwaitsBatch(p)
        /\ running' = [running EXCEPT ![i] =
                [event |-> p.event, routed |-> p.routed, at |-> "answered",
                 users |-> p.users, batches |-> p.batches, issued |-> p.issued,
                 written |-> p.written, log |-> Append(p.log, <<"answer">>),
                 promise |-> Fulfilled(Response(201, body))]]
        /\ UNCHANGED <<store, uuidNext, Aside>>

\* getAllUsers: the scan reads the table as it is at that moment (the order of the
\* items is left out here), and the invocation answers what it read
ScanTable(i) ==
    LET p == running[i]
    IN  /\ p.routed.op = "getAllUsers"
        /\ p.at = "start"
        /\ running' = [running EXCEPT ![i] =
                [event |-> p.event, routed |-> p.routed, at |-> "answered",
                 seen |-> {store[k] : k \in DOMAIN store},
                 during |-> BetweenBatches]]
        /\ UNCHANGED <<store, uuidNext, Aside>>

\* updateUser up to its await: the body is parsed and the command is sent
UpdateSend(i) ==
    LET p == running[i]
        parsed == JSONparse(p.event.body)
        name == OrElse(Prop(parsed.value, "name"), Null)
        email == OrElse(Prop(parsed.value, "email"), Null)
    IN  /\ p.routed.op = "updateUser"
        /\ p.at = "start"
        /\ running' = [running EXCEPT ![i] =
                [event |-> p.event, routed |-> p.routed, at |-> "sending",
                 commands |-> UpdateCommands(p.routed.userId, name, email), sent |-> 1]]
        /\ UNCHANGED <<store, uuidNext, Aside>>

\* the table carries out the command in flight; after the last one updateUser answers
\* the item as the command left it (ReturnValues: "ALL_NEW")
UpdateWritten(i) ==
    LET p == running[i]
        after == ApplyUpdate(store, p.commands[p.sent])
    IN  /\ p.routed.op = "updateUser"
        /\ p.at = "sending"
        /\ store' = after
        /\ running' = [running EXCEPT ![i] =
                IF p.sent < Len(p.commands)
                THEN [p EXCEPT !.sent = p.sent + 1]
                ELSE [event |-> p.event, routed |-> p.routed, at |-> "answered",
                      commands |-> p.commands, sent |-> p.sent,
                      promise |-> Fulfilled(Response(200,
                                      JSONstringify(after[p.routed.userId])))]]
        /\ UNCHANGED <<uuidNext, Aside>>

\* the table holds one user, created at tick 0, when the requests arrive together
InitConcurrent ==
    /\ store \in TablesOf(1, <<CreatedKind(0)>>)
    /\ before = store
    /\ clock = 0
    /\ uuidNext = 2
    /\ settled = NotSettled
    /\ dispatched = NotDispatched
    /\ calls = <<>>
    /\ fault = "none"
    /\ returned = [k \in {} |-> Null]
    /\ deleted = {}
    /\ pc = "idle"
    /\ event = NoEvent
    /\ panel = NoPanel
    /\ running \in Workloads

NextConcurrent ==
    \/ \E i \in DOMAIN running : BulkStart(i)
    \/ \E i \in DOMAIN running : BulkSend(i)
    \/ \E i \in DOMAIN running : BulkWritten(i)
    \/ \E i \in DOMAIN running : BulkAnswer(i)
    \/ \E i \in DOMAIN running : ScanTable(i)
    \/ \E i \in DOMAIN running : UpdateSend(i)
    \/ \E i \in DOMAIN running : UpdateWritten(i)

SpecConcurrent == InitConcurrent /\ [][NextConcurrent]_vars

----------------------------------------------------------------------------
(* The search panel of the frontend. UserSearch keeps four pieces of state: *)
(* query, results, searching and searched. Each event handler, and each     *)
(* continuation of handleSearch behind its await, runs to its end before    *)
(* the next one starts; any number of calls of handleSearch may be waiting  *)
(* for their answers at a time, and the answers arrive in any order. The    *)
(* record also keeps, beside the component's state, the requests that are   *)
(* waiting (inflight), the number of searches submitted, the query of the   *)
(* last one, whether the panel was cleared after it and whether it failed.  *)

\* searches one run of the panel submits
MaxSearches == 2

\* String.prototype.trim, the space being the only white space of the queries
RECURSIVE Trim(_)
Trim(s) ==
    IF s = <<>> THEN <<>>
    ELSE IF Head(s) = " " THEN Trim(Tail(s))
    ELSE IF s[Len(s)] = " " THEN Trim(SubSeq(s, 1, Len(s) - 1))
    ELSE s

\* encodeURIComponent over letters and the space: a space becomes %20
RECURSIVE encodeURIComponent(_)
encodeURIComponent(s) ==
    IF s = <<>> THEN <<>>
    ELSE (IF Head(s) = " " THEN <<"%", "2", "0">> ELSE <<Head(s)>>)
            \o encodeURIComponent(Tail(s))

\* the q of event.queryStringParameters: the text of the URL with %20 decoded
RECURSIVE DecodeQuery(_)
DecodeQuery(s) ==
    IF s = <<>> THEN <<>>
    ELSE IF StartsWith(s, <<"%", "2", "0">>)
         THEN <<" ">> \o DecodeQuery(SubSeq(s, 4, Len(s)))
         ELSE <<Head(s)>> \o DecodeQuery(Tail(s))

\* what the user types into the input
PanelQueries == {<<>>, <<" ">>, <<"n", " ", "l">>, <<"b", "o">>}

\* the table behind the panel: Ann Lee and Bob
PanelTable ==
    [k \in {uuidv4(1), uuidv4(2)} |->
        IF k = uuidv4(1) THEN ItemOf(1, CreatedKind(0))
        ELSE ItemOf(2, [name |-> Str(Bob), email |-> Str(BobMail),
                        createdAt |-> Str(toISOString(0))])]

(* userApi.searchUsers: GET /users/search?q=<encoded query>; the results of  *)
(* a 2xx answer when they are an array, [] when they are not; any other     *)
(* answer, and a handler whose promise is rejected, makes axios throw and   *)
(* the error is thrown on.                                                  *)
ApiSearchUsers(query, st, env) ==
    LET q == DecodeQuery(encodeURIComponent(query))
        run == handler(Event("GET", PathSearch, NoBody, Str(q)), st, env)
        ok == /\ run.promise.state = "fulfilled"
              /\ run.promise.value.statusCode \in 200..299
        data == run.promise.value.body.json
    IN  IF ~ok THEN [threw |-> TRUE]
        ELSE IF "results" \in DOMAIN data
             THEN [threw |-> FALSE, value |-> data.results]
             ELSE [threw |-> FALSE, value |-> <<>>]

(* handleSearch up to its await: nothing for a query that trims to nothing, *)
(* else setSearching(true) and the request for the query leaves.            *)
handleSearch(p) ==
    IF Trim(p.query) = <<>> THEN p
    ELSE [p EXCEPT !.searching = TRUE,
                   !.submitted = @ + 1,
                   !.inflight = [i \in DOMAIN @ \cup {p.submitted + 1} |->
                                    IF i \in DOMAIN @ THEN @[i] ELSE p.query],
                   !.last = <<p.query>>,
                   !.cleared = FALSE,
                   !.failed = FALSE]

\* the service behind the panel, which the panel's steps leave alone
Backend ==
    <<store, before, clock, uuidNext, pc, event, settled, dispatched, calls, fault,
      returned, deleted, running>>

\* onChange of the input: setQuery(e.target.value)
TypeQuery ==
    /\ panel.mounted
    /\ \E q \in PanelQueries : panel' = [panel EXCEPT !.query = q]
    /\ UNCHANGED Backend

\* onClick of the Search button, which is disabled while searching || !query.trim()
ClickSearch ==
    /\ panel.mounted
    /\ panel.submitted < MaxSearches
    /\ ~(panel.searching \/ Trim(panel.query) = <<>>)
    /\ panel' = handleSearch(panel)
    /\ UNCHANGED Backend

\* handleKeyPress with the Enter key: handleSearch(), whatever searching is
PressEnter ==
    /\ panel.mounted
    /\ panel.submitted < MaxSearches
    /\ panel' = handleSearch(panel)
    /\ UNCHANGED Backend

\* handleClear, from the button that is rendered while searched is true
ClickClear ==
    /\ panel.mounted
    /\ panel.searched
    /\ panel' = [panel EXCEPT !.query = <<>>, !.results = <<>>, !.searched = FALSE,
                              !.cleared = TRUE]
    /\ UNCHANGED Backend

\* handleSearch behind its await, the request answered: setResults, setSearched(true),
\* and setSearching(false) of the finally block
SearchAnswered ==
    /\ panel.mounted
    /\ \E id \in DOMAIN panel.inflight, scan \in ScanResults(store) :
          LET users == ApiSearchUsers(panel.inflight[id], store,
                                      Env(clock, uuidNext, 1, scan, 0))
          IN  /\ ~users.threw
              /\ panel' = [panel EXCEPT
                              !.results = users.value,
                              !.searched = TRUE,
                              !.searching = FALSE,
                              !.inflight = [i \in DOMAIN @ \ {id} |-> @[i]]]
    /\ UNCHANGED Backend

\* handleSearch behind its await, the request failed: the catch block logs the error,
\* the finally block does setSearching(false)
SearchFailed ==
    /\ panel.mounted
    /\ \E id \in DOMAIN panel.inflight, scan \in ScanResults(store) :
          LET users == ApiSearchUsers(panel.inflight[id], store,
                                      Env(clock, uuidNext, 1, scan, 1))
          IN  /\ users.threw
              /\ panel' = [panel EXCEPT
                              !.searching = FALSE,
                              !.failed = IF id = panel.submitted THEN TRUE ELSE @,
                              !.inflight = [i \in DOMAIN @ \ {id} |-> @[i]]]
    /\ UNCHANGED Backend

\* the panel as useState leaves it at the first render, before a table of two users
InitPanel ==
    /\ store = PanelTable
    /\ before = store
    /\ clock = 0
    /\ uuidNext = Cardinality(DOMAIN store) + 1
    /\ settled = NotSettled
    /\ dispatched = NotDispatched
    /\ calls = <<>>
    /\ fault = "none"
    /\ returned = [k \in {} |-> Null]
    /\ deleted = {}
    /\ running = <<>>
    /\ pc = "idle"
    /\ event = NoEvent
    /\ panel = [mounted |-> TRUE, query |-> <<>>, results |-> <<>>,
                searching |-> FALSE, searched |-> FALSE,
                inflight |-> [i \in {} |-> <<>>], submitted |-> 0,
                last |-> <<>>, cleared |-> FALSE, failed |-> FALSE]

NextPanel ==
    \/ TypeQuery
    \/ ClickSearch
    \/ PressEnter
    \/ ClickClear
    \/ SearchAnswered
    \/ SearchFailed

SpecPanel == InitPanel /\ [][NextPanel]_vars

----------------------------------------------------------------------------
(* Properties *)

\* the invocation has ended and the router had called op
Ran(op) == pc = "done" /\ dispatched.op = op

\* the invocation has ended, the router had called op, and nothing failed in it
Succeeded(op) == Ran(op) /\ fault = "none"

\* the handler's promise was fulfilled with this status and this message
AnsweredMessage(status, message) ==
    settled = Fulfilled(Response(status, MessageBody(message)))

\* the parsed body of the request is a JSON object
BodyIsObject == event.body.kind = "json" /\ event.body.value.t = "obj"

\* the properties the JSON object of the body has
BodyProps == DOMAIN event.body.value.v

(* C1: whenever body parsing or a send to the table fails inside an        *)
(* operation the router called, the handler answers status 500 with        *)
(* {message: "Internal Server Error"}; its promise is never rejected.      *)
C1_FailureAnswered500 ==
    (pc = "done" /\ dispatched.op # "none" /\ fault # "none")
        => AnsweredMessage(500, "Internal Server Error")

(* C2: after createUser answered a user, and with no write to that id      *)
(* since, getUser of that id answers 200 with the same id, name, email and  *)
(* createdAt.                                                               *)
C2_RoundTrip ==
    (Succeeded("getUser") /\ dispatched.userId \in DOMAIN returned)
        => /\ settled.state = "fulfilled"
           /\ settled.value.statusCode = 200
           /\ settled.value.body.json = returned[dispatched.userId]
           /\ DOMAIN returned[dispatched.userId] = {"id", "name", "email", "createdAt"}

C2_Witness ==
    /\ Succeeded("getUser")
    /\ dispatched.userId \in DOMAIN returned
    /\ returned[dispatched.userId].name = Str(Ann)

\* the request is an update of a key that held an item, with a JSON object as body
UpdatedExisting ==
    /\ Succeeded("updateUser")
    /\ BodyIsObject
    /\ HasItem(before, dispatched.userId)

\* attribute a of an item, undefined when the item has none
Attr(item, a) == IF a \in DOMAIN item THEN item[a] ELSE Undefined

(* C3: updateUser of an existing record with a body {name: X, email: Y}    *)
(* leaves id and createdAt as they were, stores name = X and email = Y,    *)
(* and answers 200 with the record as it is after the update.              *)
C3_UpdateSetsBoth ==
    (UpdatedExisting /\ BodyProps = {"name", "email"})
        => LET id == dispatched.userId
           IN  /\ HasItem(store, id)
               /\ Attr(store[id], "id") = Attr(before[id], "id")
               /\ Attr(store[id], "createdAt") = Attr(before[id], "createdAt")
               /\ Attr(store[id], "name") = event.body.value.v.name
               /\ Attr(store[id], "email") = event.body.value.v.email
               /\ settled = Fulfilled(Response(200, [json |-> store[id]]))

C5_PartialUpdateKeepsOmitted ==
    UpdatedExisting
        => LET id == dispatched.userId
           IN  /\ HasItem(store, id)
               /\ \A a \in {"name", "email"} \cap BodyProps :
                     Attr(store[id], a) = OrElse(event.body.value.v[a], Null)
               /\ \A a \in {"name", "email"} \ BodyProps :
                     Attr(store[id], a) = Attr(before[id], a)

\* the count the body of the request gives, as an integer
BodyCount == event.body.value.v.count.v

\* the body of the request is a JSON object whose count is an integer
BodyHasIntegerCount ==
    /\ BodyIsObject
    /\ "count" \in BodyProps
    /\ event.body.value.v.count.t = "num"

\* the body of the request is absent or a JSON object without a count
BodyHasNoCount ==
    \/ event.body.kind \in {"absent", "empty"}
    \/ BodyIsObject /\ "count" \notin BodyProps

\* the users bulkCreateUsers answered, and the items the invocation added to the table
AnsweredUsers == settled.value.body.json.users

AddedKeys == (DOMAIN store) \ (DOMAIN before)

\* every answered user is an item of the table, and nothing else was added
WroteExactly(n) ==
    /\ Len(AnsweredUsers) = n
    /\ Cardinality(AddedKeys) = n
    /\ \A i \in 1..n : /\ AnsweredUsers[i].id.v \in AddedKeys
                       /\ store[AnsweredUsers[i].id.v] = AnsweredUsers[i]
    /\ \A k \in DOMAIN before : HasItem(store, k) /\ store[k] = before[k]

(* C6: a bulkCreateUsers that succeeds with an integer count in the body    *)
(* generates and writes exactly min(max(count, 1), 100) users; with no body *)
(* or no count in it, exactly 10.                                           *)
C6_BulkBounds ==
    Succeeded("bulkCreateUsers")
        => /\ settled.value.statusCode = 201
           /\ BodyHasIntegerCount
                => WroteExactly(IF BodyCount < 1 THEN 1
                                ELSE IF BodyCount > 100 THEN 100
                                ELSE BodyCount)
           /\ BodyHasNoCount => WroteExactly(10)

C6_Witness ==
    /\ Succeeded("bulkCreateUsers")
    /\ BodyHasIntegerCount
    /\ BodyCount = 1000
    /\ Cardinality(DOMAIN store) = 100

\* the items of the batch writes this invocation sent, one after the other
RECURSIVE SentItems(_)
SentItems(k) == IF k = 0 THEN <<>> ELSE SentItems(k - 1) \o calls[k].Items

(* C7: a bulkCreateUsers that succeeds with n generated users sends exactly *)
(* ceil(n / 25) batch writes; each but the last carries 25 users, the last  *)
(* the n - 25 * (ceil(n / 25) - 1) that remain, none more than 25 or none,  *)
(* and every generated user is in exactly one of them.                      *)
C7_Batching ==
    Succeeded("bulkCreateUsers")
        => LET n == Len(AnsweredUsers)
               batches == (n + 24) \div 25
           IN  /\ Len(calls) = batches
               /\ \A k \in 1..Len(calls) :
                    /\ calls[k].cmd = "BatchWrite"
                    /\ Len(calls[k].Items) >= 1
                    /\ Len(calls[k].Items) <= 25
                    /\ k < batches => Len(calls[k].Items) = 25
                    /\ k = batches => Len(calls[k].Items) = n - 25 * (batches - 1)
               /\ SentItems(Len(calls)) = AnsweredUsers
               /\ \A i, j \in 1..n : AnsweredUsers[i].id = AnsweredUsers[j].id => i = j

C7_Witness ==
    /\ Succeeded("bulkCreateUsers")
    /\ Len(AnsweredUsers) = 57
    /\ Len(calls) = 3
    /\ Len(calls[1].Items) = 25
    /\ Len(calls[2].Items) = 25
    /\ Len(calls[3].Items) = 7

\* the command each operation sends to the table
CommandOf(op) ==
    CASE op \in {"getAllUsers", "searchUsers", "getUserStats", "exportUsers"} -> "Scan"
      [] op = "createUser" -> "Put"
      [] op = "bulkCreateUsers" -> "BatchWrite"
      [] op = "getUser" -> "Get"
      [] op = "updateUser" -> "Update"
      [] op = "deleteUser" -> "Delete"
      [] OTHER -> "none"

\* the router answered by itself: no operation ran, the table was not touched
RouterAnswered(status, message) ==
    /\ dispatched.op = "none"
    /\ AnsweredMessage(status, message)
    /\ calls = <<>>
    /\ store = before

(* C8: on the path "/users" exactly, GET is dispatched to getAllUsers, POST *)
(* to createUser, and every other method is answered 400 "Unsupported       *)
(* method" with no operation dispatched.                                    *)
C8_CollectionRoute ==
    (pc = "done" /\ event.path = PathUsers)
        => CASE event.method = "GET" ->
                    /\ dispatched = Call("getAllUsers")
                    /\ calls = <<[cmd |-> "Scan"]>>
             [] event.method = "POST" ->
                    /\ dispatched = Call("createUser")
                    /\ \A k \in 1..Len(calls) : calls[k].cmd = "Put"
                    /\ fault = "none" => settled.value.statusCode = 201
             [] OTHER -> RouterAnswered(400, "Unsupported method")

C8_Witness ==
    /\ pc = "done"
    /\ event.path = PathUsers
    /\ event.method = "PATCH"
    /\ RouterAnswered(400, "Unsupported method")

\* the request in the handler has this method and this path
Requested(method, path) == event.method = method /\ event.path = path

(* C9: every request ends in exactly one outcome, a routing answer or one   *)
(* operation, and POST /users/bulk, GET /users/search, GET /users/stats and *)
(* GET /users/export go to bulkCreateUsers, searchUsers, getUserStats and   *)
(* exportUsers, never to a by-id operation with the reserved word as id.    *)
C9_RoutePrecedence ==
    pc = "done"
        => /\ dispatched.op \in
                {"none", "getAllUsers", "createUser", "bulkCreateUsers", "searchUsers",
                 "getUserStats", "exportUsers", "getUser", "updateUser", "deleteUser"}
           /\ \A k \in 1..Len(calls) : calls[k].cmd = CommandOf(dispatched.op)
           /\ Requested("POST", PathBulk) => dispatched = Call("bulkCreateUsers")
           /\ Requested("GET", PathSearch) => dispatched = Call("searchUsers")
           /\ Requested("GET", PathStats) => dispatched = Call("getUserStats")
           /\ Requested("GET", PathExport) => dispatched = Call("exportUsers")

C9_Witness ==
    /\ pc = "done"
    /\ Requested("GET", PathStats)
    /\ dispatched = Call("getUserStats")
    /\ calls = <<[cmd |-> "Scan"]>>

\* what follows "/users/" in the path of the request
Remainder == SubSeq(event.path, Len(PathUsersSlash) + 1, Len(event.path))

\* the request matches one of the four reserved routes
ReservedRoute ==
    \/ Requested("POST", PathBulk)
    \/ Requested("GET", PathSearch)
    \/ Requested("GET", PathStats)
    \/ Requested("GET", PathExport)

(* C10: for a path that begins with "/users/", matches no earlier route and *)
(* has something after the prefix, the id handed to getUser, updateUser or  *)
(* deleteUser is all of what follows the prefix, also when "/users/" occurs *)
(* in it again; GET, PUT and DELETE select the three operations and any     *)
(* other method is answered 400 "Unsupported method".                       *)
C10_IdIsWholeRemainder ==
    (pc = "done" /\ StartsWith(event.path, PathUsersSlash) /\ ~ReservedRoute
        /\ Remainder # <<>>)
        => CASE event.method = "GET" -> dispatched = CallById("getUser", Remainder)
             [] event.method = "PUT" -> dispatched = CallById("updateUser", Remainder)
             [] event.method = "DELETE" -> dispatched = CallById("deleteUser", Remainder)
             [] OTHER -> RouterAnswered(400, "Unsupported method")

(* C11: a request whose path is exactly "/users/" is answered 400 "User ID *)
(* required" whatever its method; no by-id operation is called and nothing *)
(* is sent to the table.                                                    *)
C11_MissingId ==
    (pc = "done" /\ event.path = PathUsersSlash)
        => /\ RouterAnswered(400, "User ID required")
           /\ dispatched.op \notin {"getUser", "updateUser", "deleteUser"}

C11_Witness ==
    /\ pc = "done"
    /\ Requested("DELETE", PathUsersSlash)
    /\ RouterAnswered(400, "User ID required")

\* the handler's promise has settled in one way: one response, or one rejection
SettledOnce ==
    \/ /\ settled.state = "fulfilled"
       /\ DOMAIN settled = {"state", "value"}
       /\ settled.value.statusCode \in {200, 201, 400, 404, 500}
    \/ /\ settled.state = "rejected"
       /\ DOMAIN settled = {"state", "reason"}
       /\ fault # "none"

(* C12: a request whose path is not "/users" and does not begin with        *)
(* "/users/" is answered 404 "Not Found" whatever its method, with no        *)
(* operation called; a path that is "/users" or begins with "/users/" is     *)
(* never answered 404 by the router; and every request ends with one routing *)
(* answer or the call of one operation, its promise settled once.            *)
C12_NotFound ==
    pc = "done"
        => /\ (event.path # PathUsers /\ ~StartsWith(event.path, PathUsersSlash))
                => RouterAnswered(404, "Not Found")
           /\ (event.path = PathUsers \/ StartsWith(event.path, PathUsersSlash))
                => dispatched # Answer(404, "Not Found")
           /\ dispatched.op = "none"
                => /\ RouterAnswered(dispatched.statusCode, dispatched.message)
                   /\ dispatched.statusCode \in {400, 404}
           /\ dispatched.op # "none" => CommandOf(dispatched.op) # "none"
           /\ SettledOnce

C12_Witness ==
    /\ pc = "done"
    /\ Requested("POST", PathUsers \o <<"x">>)
    /\ RouterAnswered(404, "Not Found")

\* the text q occurs in the text s
Occurs(q, s) == \E i \in 1..(Len(s) - Len(q) + 1) : SubSeq(s, i, i + Len(q) - 1) = q

\* the query of the request, lower-cased; the empty text when the request has none
LoweredQuery == IF event.q = Undefined THEN <<>> ELSE ToLowerCase(event.q.v)

\* the item has text under a whose lower-cased form holds the lower-cased query
Holds(item, a) ==
    /\ a \in DOMAIN item
    /\ item[a].t = "str"
    /\ Occurs(LoweredQuery, ToLowerCase(item[a].v))

\* the items of the table the query selects: all of them when the query is empty
Selected ==
    {k \in DOMAIN store :
        LoweredQuery = <<>> \/ Holds(store[k], "name") \/ Holds(store[k], "email")}

\* the sequence holds the items of the table under these keys, each once, nothing else
HoldsExactly(items, keys) ==
    /\ Len(items) = Cardinality(keys)
    /\ {items[i] : i \in 1..Len(items)} = {store[k] : k \in keys}

(* C13: a searchUsers that succeeds answers 200 with exactly the items       *)
(* whose name or email, lower-cased, contains the lower-cased q, every item  *)
(* when q is absent or empty, and with count the number of results.          *)
C13_Search ==
    Succeeded("searchUsers")
        => /\ settled.value.statusCode = 200
           /\ HoldsExactly(settled.value.body.json.results, Selected)
           /\ settled.value.body.json.count = Len(settled.value.body.json.results)
           /\ store = before

C13_Witness ==
    /\ Succeeded("searchUsers")
    /\ event.q = Str(<<"A", "N", "N">>)
    /\ Cardinality(DOMAIN store) = 2
    /\ settled.value.body.json.count = 1
    /\ settled.value.body.json.results[1].name = Str(AnnLee)

\* the statistics getUserStats answered
Stats == settled.value.body.json

\* the first tick of the day of the clock
Midnight == (clock \div TicksPerDay) * TicksPerDay

\* the ticks the items under these keys were created at
TicksOf(keys) == {TickOf(store[k]) : k \in keys}

RecentKeys == {Stats.recentUsers[i].id.v : i \in 1..Len(Stats.recentUsers)}

(* C15: a getUserStats that succeeds answers in recentUsers min(5, total)    *)
(* items of the table, each once, newest first by createdAt, and no item     *)
(* left out is newer than an item in the list.                               *)
C15_StatsRecent ==
    Succeeded("getUserStats")
        => LET recent == Stats.recentUsers
               n == Len(recent)
           IN  /\ n = (IF Cardinality(DOMAIN store) < 5 THEN Cardinality(DOMAIN store) ELSE 5)
               /\ Cardinality(RecentKeys) = n
               /\ \A i \in 1..n : /\ HasItem(store, recent[i].id.v)
                                  /\ recent[i] = store[recent[i].id.v]
               /\ \A i, j \in 1..n : i < j => TickOf(recent[i]) >= TickOf(recent[j])
               /\ \A k \in (DOMAIN store) \ RecentKeys :
                     \A i \in 1..n : TickOf(store[k]) <= TickOf(recent[i])

C15_Witness ==
    /\ Succeeded("getUserStats")
    /\ Cardinality(DOMAIN store) = 6
    /\ Len(Stats.recentUsers) = 5
    /\ TickOf(Stats.recentUsers[1]) = TicksPerDay
    /\ TickOf(Stats.recentUsers[5]) = 1
    /\ TicksOf((DOMAIN store) \ RecentKeys) = {-1}

(* C16: a getUserStats that succeeds answers in usersCreatedToday the number *)
(* of items created within the 24 hours before the request.                  *)
C16_StatsLast24Hours ==
    Succeeded("getUserStats")
        => Stats.usersCreatedToday =
                Cardinality({k \in DOMAIN store :
                                /\ TickOf(store[k]) > clock - TicksPerDay
                                /\ TickOf(store[k]) <= clock
                                /\ TickOf(store[k]) # -1})

\* the table holds what it held before the invocation, but nothing under the key
RemovedOnly(key) ==
    /\ DOMAIN store = (DOMAIN before) \ {key}
    /\ \A k \in DOMAIN store : store[k] = before[k]

AnsweredStatus(status) ==
    /\ settled.state = "fulfilled"
    /\ settled.value.statusCode = status

IssuedIds == {uuidv4(n) : n \in 1..(uuidNext - 1)}

(* C19: every item of the table was written by createUser or                *)
(* bulkCreateUsers: its key is an id that was generated for it and it        *)
(* carries that id and a createdAt; no other operation makes an item.        *)
C19_OnlyCreateMakesRecords ==
    \A k \in DOMAIN store :
        /\ k \in IssuedIds
        /\ {"id", "createdAt"} \subseteq DOMAIN store[k]
        /\ store[k].id = Str(k)

(* C20: a getAllUsers and an exportUsers that succeed each answer 200 with   *)
(* every item of the table, whole and once, and nothing else, so both with   *)
(* the same set of items; exportUsers also answers the Content-Disposition   *)
(* header of a download.                                                     *)
C20_FullSetViews ==
    /\ Succeeded("getAllUsers")
            => /\ settled.value.statusCode = 200
               /\ HoldsExactly(settled.value.body.json, DOMAIN store)
               /\ store = before
    /\ Succeeded("exportUsers")
            => /\ settled.value.statusCode = 200
               /\ HoldsExactly(settled.value.body.json, DOMAIN store)
               /\ "Content-Disposition" \in DOMAIN settled.value.headers
               /\ settled.value.headers["Content-Disposition"]
                    = "attachment; filename=\"users.json\""
               /\ store = before

C20_Witness ==
    /\ Succeeded("exportUsers")
    /\ Cardinality(DOMAIN store) = 3
    /\ Len(settled.value.body.json) = 3
    /\ "Content-Disposition" \in DOMAIN settled.value.headers

(* C21: a createUser or an updateUser whose body is not JSON text fails at   *)
(* the parse: no command is sent to the table and the table is as it was.    *)
C21_MalformedBodyWritesNothing ==
    ((Ran("createUser") \/ Ran("updateUser")) /\ event.body.kind # "json")
        => /\ fault = "SyntaxError"
           /\ calls = <<>>
           /\ store = before
           /\ ~AnsweredStatus(200)
           /\ ~AnsweredStatus(201)

C21_Witness ==
    /\ Ran("updateUser")
    /\ event.body = MalformedBody
    /\ HasItem(before, dispatched.userId)
    /\ Attr(before[dispatched.userId], "name") = Str(Ann)
    /\ store = before
    /\ calls = <<>>

\* the ids of the items of the batch writes k of this invocation, for k in ks
BatchKeys(ks) == UNION {{calls[k].Items[i].id.v : i \in 1..Len(calls[k].Items)} : k \in ks}

(* C22: when a batch write of a bulkCreateUsers fails, the items of the      *)
(* batches sent before it are in the table, the failed batch is the last     *)
(* command of the invocation, so that no later batch was sent, and the       *)
(* request is not answered 201.                                              *)
C22_BulkPartialFailure ==
    (Ran("bulkCreateUsers") /\ fault = "StoreError")
        => LET k == Len(calls)
           IN  /\ k >= 1
               /\ \A j \in 1..k : calls[j].cmd = "BatchWrite"
               /\ DOMAIN store = (DOMAIN before) \cup BatchKeys(1..(k - 1))
               /\ \A j \in 1..(k - 1) : \A i \in 1..Len(calls[j].Items) :
                     store[calls[j].Items[i].id.v] = calls[j].Items[i]
               /\ BatchKeys({k}) \cap DOMAIN store = {}
               /\ Cardinality(AddedKeys) = 25 * (k - 1)
               /\ settled.state = "rejected"
               /\ ~AnsweredStatus(201)

C22_Witness ==
    /\ Ran("bulkCreateUsers")
    /\ fault = "StoreError"
    /\ BodyHasIntegerCount
    /\ BodyCount = 57
    /\ Len(calls) = 2
    /\ Cardinality(DOMAIN store) = 25
    /\ settled.state = "rejected"

\* the reserved word of a reserved path: what follows "/users/"
ReservedWord(path) == SubSeq(path, Len(PathUsersSlash) + 1, Len(path))

(* C24: a request to /users/bulk, /users/search, /users/stats or             *)
(* /users/export whose method is not the one reserved for the path goes to   *)
(* the by-id route with the reserved word as id: GET to getUser, PUT to      *)
(* updateUser, DELETE to deleteUser, and any other method is answered 400    *)
(* "Unsupported method".                                                     *)
C24_ReservedFallThrough ==
    (pc = "done" /\ event.path \in ReservedPaths /\ ~ReservedRoute)
        => CASE event.method = "GET" ->
                    dispatched = CallById("getUser", ReservedWord(event.path))
             [] event.method = "PUT" ->
                    dispatched = CallById("updateUser", ReservedWord(event.path))
             [] event.method = "DELETE" ->
                    dispatched = CallById("deleteUser", ReservedWord(event.path))
             [] OTHER -> RouterAnswered(400, "Unsupported method")

C24_Witness ==
    /\ pc = "done"
    /\ Requested("GET", PathBulk)
    /\ dispatched = CallById("getUser", <<"b", "u", "l", "k">>)
    /\ calls = <<[cmd |-> "Get", Key |-> <<"b", "u", "l", "k">>]>>

(* C25: a bulkCreateUsers that answers 201 has generated and written at      *)
(* least 1 and at most 100 users, whatever the count of the body is.         *)
C25_BulkRangeAnyCount ==
    (Succeeded("bulkCreateUsers") /\ AnsweredStatus(201))
        => /\ Len(AnsweredUsers) >= 1
           /\ Len(AnsweredUsers) <= 100
           /\ Cardinality(AddedKeys) = Len(AnsweredUsers)

\* the operations that only read the table
ReadingOperations == {"getAllUsers", "searchUsers", "getUserStats", "exportUsers", "getUser"}

(* C27: a request that ends in getAllUsers, searchUsers, getUserStats,       *)
(* exportUsers or getUser, or in a 400 or 404 of the router, sends no        *)
(* command that writes and leaves every item of the table as it was.         *)
C27_ReadsLeaveStore ==
    (pc = "done" /\ dispatched.op \in ReadingOperations \cup {"none"})
        => /\ store = before
           /\ \A k \in 1..Len(calls) : calls[k].cmd \in {"Scan", "Get"}
           /\ dispatched.op = "none" => calls = <<>>

C27_Witness ==
    /\ Succeeded("getUser")
    /\ HasItem(before, dispatched.userId)
    /\ AnsweredStatus(200)
    /\ store = before

(* C26: after a deleteUser of an id succeeded and while nothing has written  *)
(* that id since, getUser of the id answers 404 and getAllUsers answers no   *)
(* item of that id; the deleteUser itself leaves the item of every other id  *)
(* as it was.                                                                *)
C26_DeleteEffectAndFrame ==
    /\ (Succeeded("getUser") /\ dispatched.userId \in deleted)
            => /\ AnsweredStatus(404)
               /\ AnsweredMessage(404, "User not found")
    /\ Succeeded("getAllUsers")
            => \A i \in 1..Len(settled.value.body.json) :
                    settled.value.body.json[i].id.v \notin deleted
    /\ Succeeded("deleteUser")
            => /\ dispatched.userId \in deleted
               /\ RemovedOnly(dispatched.userId)

C26_Witness ==
    /\ Succeeded("getUser")
    /\ dispatched.userId = uuidv4(1)
    /\ dispatched.userId \in deleted
    /\ AnsweredStatus(404)

\* the concurrent invocations of bulkCreateUsers that have reached their loop
BulkInvocations ==
    {j \in DOMAIN running :
        running[j].routed.op = "bulkCreateUsers" /\ running[j].at \in {"loop", "answered"}}

\* the k-th event of a bulk create of n batches that sends one batch at a time, in order
InOrderEvent(k, n) ==
    IF k = 2 * n + 1 THEN <<"answer">>
    ELSE IF k % 2 = 1 THEN <<"send", (k + 1) \div 2>>
    ELSE <<"done", k \div 2>>

(* C23: in an invocation of bulkCreateUsers the batch writes are sent one at *)
(* a time in the order of the chunks: batch i + 1 is sent only when batch i  *)
(* has completed, at most one batch write is in flight, and the 201 answer   *)
(* comes only after the last batch has completed.                            *)
C23_BulkOrdering ==
    \A j \in BulkInvocations :
        LET p == running[j]
        IN  /\ p.issued - Cardinality(p.written) \in {0, 1}
            /\ p.written = 1..Cardinality(p.written)
            /\ Len(p.log) <= 2 * Len(p.batches) + 1
            /\ \A k \in 1..Len(p.log) : p.log[k] = InOrderEvent(k, Len(p.batches))
            /\ p.at = "answered"
                    => /\ p.written = 1..Len(p.batches)
                       /\ p.promise.value.statusCode = 201
                       /\ \A k \in DOMAIN p.users : HasItem(store, p.users[k].id.v)

C23_Witness ==
    \E j \in BulkInvocations :
        /\ running[j].at = "answered"
        /\ Len(running[j].batches) = 3
        /\ running[j].log = <<<<"send", 1>>, <<"done", 1>>, <<"send", 2>>, <<"done", 2>>,
                               <<"send", 3>>, <<"done", 3>>, <<"answer">>>>

\* the concurrent scans that have answered
Scans_Answered ==
    {j \in DOMAIN running :
        running[j].routed.op = "getAllUsers" /\ running[j].at = "answered"}

\* the users of the bulk create b that the scan j has read
SeenOf(j, b) ==
    {k \in DOMAIN running[b].users : running[b].users[k] \in running[j].seen}

(* C28: a scan that reads the table when a bulkCreateUsers of more than 25   *)
(* users has written a batch and has another to write reads some of that     *)
(* invocation's users and not all of them: exactly those of the batches      *)
(* written so far, in whole batches of 25.                                   *)
C28_BulkNotAtomic ==
    \A j \in Scans_Answered : \A b \in running[j].during :
        /\ Len(running[b].users) > 25
        /\ SeenOf(j, b) # {}
        /\ SeenOf(j, b) # DOMAIN running[b].users
        /\ Cardinality(SeenOf(j, b)) % 25 = 0

C28_Witness ==
    \E i, j \in Scans_Answered : \E b \in running[i].during :
        /\ b \in running[j].during
        /\ Cardinality(SeenOf(i, b)) = 25
        /\ Cardinality(SeenOf(j, b)) = 50
        /\ running[i].seen # running[j].seen
        /\ running[b].at = "answered"

\* the concurrent invocations of updateUser
UpdateInvocations == {j \in DOMAIN running : running[j].routed.op = "updateUser"}

\* what the request of invocation j asks to be stored under attribute a
Asked(j, a) == OrElse(Prop(running[j].event.body.value, a), Null)

(* C29: when two updateUser requests for one existing id have run at the     *)
(* same time and both have answered, the item holds the name and the email   *)
(* of one and the same request, and the id and createdAt it had before.      *)
C29_UpdatesDoNotMix ==
    (UpdateInvocations # {} /\ \A j \in UpdateInvocations : running[j].at = "answered")
        => \A id \in {running[j].routed.userId : j \in UpdateInvocations} :
              /\ HasItem(store, id)
              /\ \E j \in UpdateInvocations :
                    /\ running[j].routed.userId = id
                    /\ store[id].name = Asked(j, "name")
                    /\ store[id].email = Asked(j, "email")
              /\ store[id].id = before[id].id
              /\ store[id].createdAt = before[id].createdAt
              /\ DOMAIN store[id] = DOMAIN before[id]

C29_Witness ==
    /\ Cardinality(UpdateInvocations) = 2
    /\ \A j \in UpdateInvocations : running[j].at = "answered"
    /\ Asked(1, "name") = Str(Ann)
    /\ Asked(2, "name") = Str(Bob)
    /\ running[2].promise.value.body.json.name = Str(Bob)
    /\ store[uuidv4(1)].name = Str(Ann)
    /\ store[uuidv4(1)].email = Str(AnnMail)

\* the result lists a search for query may be answered with
ResultsFor(query) ==
    {ApiSearchUsers(query, store, Env(clock, uuidNext, 1, scan, 0)).value :
        scan \in ScanResults(store)}

(* C30: in the search panel, searching is true whenever a request is in      *)
(* flight; and once none is in flight, searching is false and the panel      *)
(* shows the results of the search submitted last, or nothing with searched  *)
(* false when it was cleared after that submission (or nothing was ever      *)
(* submitted). A last search whose request failed is left out.               *)
C30_PanelConsistent ==
    panel.mounted =>
        /\ (DOMAIN panel.inflight # {}) => panel.searching
        /\ (DOMAIN panel.inflight = {}) =>
              /\ ~panel.searching
              /\ IF panel.last = <<>> \/ panel.cleared
                 THEN panel.results = <<>> /\ ~panel.searched
                 ELSE \/ panel.failed
                      \/ /\ panel.searched
                         /\ panel.results \in ResultsFor(panel.last[1])

====
